---- MODULE Spec2Model ----
(***************************************************************************)
(* State-machine model of the participation roster (src/src/main.rs):      *)
(* the App struct, the methods of impl App, and the key dispatch of        *)
(* run_app.  Strings are sequences of characters; Option<T> is a sequence  *)
(* of length 0 (None) or 1 (Some).  Vec indices are 0-based as in the      *)
(* source, so element i of a Vec v is v[i + 1].                            *)
(***************************************************************************)
EXTENDS Integers, Sequences, FiniteSets, TLC

(* ------------------------------ bounds --------------------------------- *)

\* Largest number of rows in the student file.
MaxRows == 3
\* Largest number of answers recorded in one session.
MaxAnswers == 1
\* Longest query typed into the input box, in characters.
MaxInput == 2

(* --------------------------- program constants ------------------------- *)

\* std::usize::MAX, narrowed to 16 bits: the model's integers are 32 bits
\* wide.  Wrapping subtraction is taken modulo USIZE_MAX + 1.
USIZE_MAX == 65535

\* Number of circles in COLORS.
NumColors == 5

None == <<>>
Some(x) == <<x>>

(* ------------------------------ strings -------------------------------- *)

\* The two-byte character U+00E9 is written "u00E9".
Utf8Len(c) == IF c = "u00E9" THEN 2 ELSE 1

\* char::to_lowercase on the characters that occur.
LowerChar(c) == IF c = "A" THEN "a" ELSE IF c = "B" THEN "b" ELSE c

\* str::to_lowercase
to_lowercase(s) == [i \in 1..Len(s) |-> LowerChar(s[i])]

RECURSIVE ByteLen(_)
\* str::len: the length in bytes.
ByteLen(s) == IF s = <<>> THEN 0 ELSE Utf8Len(Head(s)) + ByteLen(Tail(s))

RECURSIVE TrimStart(_)
TrimStart(s) == IF s # <<>> /\ Head(s) = " " THEN TrimStart(Tail(s)) ELSE s

RECURSIVE TrimEnd(_)
TrimEnd(s) ==
    IF s # <<>> /\ s[Len(s)] = " " THEN TrimEnd(SubSeq(s, 1, Len(s) - 1)) ELSE s

\* str::trim
Trim(s) == TrimEnd(TrimStart(s))

Range(s) == {s[i] : i \in 1..Len(s)}

(* --------------------------- the student file -------------------------- *)

\* A row of the file: struct Student as deserialized by serde, the skipped
\* fields at their defaults.
Row(name, email, participation_score, deferrals, absent) ==
    [name |-> name, email |-> email,
     participation_score |-> participation_score,
     deferrals |-> deferrals, absent |-> absent,
     answered_today |-> 0, color |-> 0]

\* The rows a file can hold.  Two of them are the same student once
\* trimmed.
Rows ==
    {Row(<<" ", "A", "b">>, <<"x", " ">>, 2, 0, 0),
     Row(<<"A", "b", " ">>, <<" ", "x">>, 2, 0, 0),
     Row(<<"b", "a">>, <<"y">>, 3, 1, 0),
     Row(<<"u00E9", "a">>, <<"z">>, 3, 0, 2)}

\* The files: every sequence of at most MaxRows rows.
Files == UNION {[1..n -> Rows] : n \in 0..MaxRows}

RECURSIVE deserialize_file_raw_email(_)
\* deserialize_file keeping the untrimmed email in the entry.
deserialize_file_raw_email(rows) ==
    IF rows = <<>> THEN <<>>
    ELSE LET s == rows[Len(rows)]
             email == Trim(s.email)
             before ==
                 deserialize_file_raw_email(SubSeq(rows, 1, Len(rows) - 1))
             entry == [name |-> Trim(s.name),
                       email |-> s.email,
                       participation_score |-> s.participation_score,
                       deferrals |-> s.deferrals,
                       absent |-> s.absent,
                       answered_today |-> 0,
                       color |-> 0]
         IN  [k \in DOMAIN before \cup {email} |->
                 IF k = email THEN entry ELSE before[k]]

RECURSIVE deserialize_file(_)
\* The HashMap built from the rows in file order: a later row with the same
\* trimmed email replaces the earlier one.
deserialize_file(rows) ==
    IF rows = <<>> THEN <<>>
    ELSE LET s == rows[Len(rows)]
             email == Trim(s.email)
             before == deserialize_file(SubSeq(rows, 1, Len(rows) - 1))
             entry == [name |-> Trim(s.name),
                       email |-> email,
                       participation_score |-> s.participation_score,
                       deferrals |-> s.deferrals,
                       absent |-> s.absent,
                       answered_today |-> 0,
                       color |-> 0]
         IN  [k \in DOMAIN before \cup {email} |->
                 IF k = email THEN entry ELSE before[k]]

(* ------------------------------- state --------------------------------- *)

VARIABLES
    pc,               \* "new" before App::new, "loop" in run_app, "exit", "abort"
    panic,            \* the panic message once the process has aborted
    overflow_checks,  \* the build's overflow checks: "unknown" until an
                      \* overflow shows them to be "on" or "off"
    overflowed,       \* the latest step overflowed a usize
    input,            \* App.input
    character_index,  \* App.character_index
    display_mode,     \* App.display_mode
    student_display,  \* App.student_display
    students,         \* App.students
    iter_order,       \* the order in which App.students iterates
    order,            \* App.order
    view,             \* App.view
    selection,        \* App.selection
    bag,              \* the ticket bag of the latest randomize, unshuffled
    last              \* the command the latest step executed

vars == <<pc, panic, overflow_checks, overflowed, input, character_index, display_mode, student_display,
          students, iter_order, order, view, selection, bag, last>>

\* The App value as the methods see it (&mut self), with the state of the
\* process around it.
Self ==
    [panic |-> "none", overflow_checks |-> overflow_checks,
     overflowed |-> FALSE, input |-> input, character_index |-> character_index,
     display_mode |-> display_mode, student_display |-> student_display,
     students |-> students, order |-> order, view |-> view,
     selection |-> selection, bag |-> bag]

\* A method that panics leaves the process dead with this message.
Panicked(self, msg) == [self EXCEPT !.panic = msg]

\* The outcomes of a usize operation that overflows: a panic in a build with
\* overflow checks, and wrapped (the method then goes on to wrapped) in a
\* build without.  The checks are the same throughout one run.
Overflow(self, msg, wrapped) ==
    (IF self.overflow_checks # "off"
     THEN {Panicked([self EXCEPT !.overflow_checks = "on",
                                 !.overflowed = TRUE], msg)}
     ELSE {})
    \cup
    (IF self.overflow_checks # "on"
     THEN {[wrapped EXCEPT !.overflow_checks = "off", !.overflowed = TRUE]}
     ELSE {})

(* -------------------------- usize arithmetic --------------------------- *)

\* a - b on usize without overflow checks.
WrapSub(a, b) == (a - b) % (USIZE_MAX + 1)

\* a + b on usize without overflow checks.
WrapAdd(a, b) == (a + b) % (USIZE_MAX + 1)

\* usize::saturating_sub
saturating_sub(a, b) == IF a >= b THEN a - b ELSE 0

\* usize::saturating_add
saturating_add(a, b) == IF a + b > USIZE_MAX THEN USIZE_MAX ELSE a + b

\* Ord::clamp
clamp(x, lo, hi) == IF x < lo THEN lo ELSE IF x > hi THEN hi ELSE x

(* ------------------------- cursor and selection ------------------------ *)

clamp_cursor(self, new_cursor_pos) == clamp(new_cursor_pos, 0, Len(self.input))

move_cursor_left(self) ==
    LET cursor_moved_left == saturating_sub(self.character_index, 1)
    IN  [self EXCEPT !.character_index = clamp_cursor(self, cursor_moved_left)]

move_cursor_right(self) ==
    LET cursor_moved_right == saturating_add(self.character_index, 1)
    IN  [self EXCEPT !.character_index = clamp_cursor(self, cursor_moved_right)]

\* move_selection_up jumping to the top of the view.
move_selection_up_to_top(self) ==
    IF self.selection = None THEN self ELSE [self EXCEPT !.selection = Some(0)]

move_selection_up(self) ==
    IF self.selection = None THEN self
    ELSE LET sel == self.selection[1]
         IN  IF sel > 0 THEN [self EXCEPT !.selection = Some(sel - 1)] ELSE self

\* The set of outcomes: view.len() - 1 overflows on an empty view.
move_selection_down(self) ==
    IF self.selection = None THEN {self}
    ELSE LET sel == self.selection[1]
             lim == WrapSub(Len(self.view), 1)
             done == IF sel < lim THEN [self EXCEPT !.selection = Some(sel + 1)]
                     ELSE self
         IN  IF Len(self.view) = 0
             THEN Overflow(self, "attempt to subtract with overflow", done)
             ELSE {done}

\* selection_reset without the empty case.
selection_reset_always_first(self) == [self EXCEPT !.selection = Some(0)]

selection_reset(self) ==
    IF Len(self.view) > 0 THEN [self EXCEPT !.selection = Some(0)]
    ELSE [self EXCEPT !.selection = None]

\* Some(student), None, or a panic message.
selected_student(self) ==
    IF self.selection = None THEN [panic |-> "none", val |-> None]
    ELSE LET sel == self.selection[1]
         IN  IF ~(Len(self.view) >= sel)
             THEN [panic |-> "assertion failed: self.view.len() >= sel",
                   val |-> None]
             ELSE IF sel >= Len(self.view)
             THEN [panic |-> "index out of bounds", val |-> None]
             ELSE IF self.view[sel + 1] \notin DOMAIN self.students
             THEN [panic |-> "View has a stale student not in the student db.",
                   val |-> None]
             ELSE [panic |-> "none",
                   val |-> Some(self.students[self.view[sel + 1]])]

(* --------------------------- search and view -------------------------- *)

RECURSIVE Embeddings(_, _, _)
\* The ways to find pattern as a subsequence of choice at positions >= from:
\* each an increasing sequence of positions.
Embeddings(choice, pattern, from) ==
    IF pattern = <<>> THEN {<<>>}
    ELSE UNION {{<<i>> \o e : e \in Embeddings(choice, Tail(pattern), i + 1)} :
                 i \in {j \in from..Len(choice) : choice[j] = Head(pattern)}}

\* The score of one embedding: every matched character counts, a match at
\* the start of the name and a match adjacent to the previous one count more.
EmbeddingScore(e) ==
    LET Pts(i) == 16 + (IF e[i] = 1 THEN 8 ELSE 0)
                     + (IF i > 1 /\ e[i] = e[i - 1] + 1 THEN 4 ELSE 0)
        sum[i \in 0..Len(e)] == IF i = 0 THEN 0 ELSE sum[i - 1] + Pts(i)
    IN  sum[Len(e)]

\* SkimMatcherV2::fuzzy_match: None when pattern is no subsequence of choice,
\* else Some(score of the best embedding).
fuzzy_match(choice, pattern) ==
    LET es == Embeddings(choice, pattern, 1)
    IN  IF es = {} THEN None
        ELSE Some(CHOOSE m \in {EmbeddingScore(e) : e \in es} :
                      \A e \in es : EmbeddingScore(e) <= m)

RECURSIVE sort_by_score_desc_unstable(_)
\* A descending sort that puts a later entry before earlier ones of equal
\* score.
sort_by_score_desc_unstable(matched) ==
    IF matched = <<>> THEN <<>>
    ELSE LET x == matched[Len(matched)]
             front ==
                 sort_by_score_desc_unstable(
                     SubSeq(matched, 1, Len(matched) - 1))
             n == Cardinality({i \in 1..Len(front) : front[i].score > x.score})
         IN  SubSeq(front, 1, n) \o <<x>> \o SubSeq(front, n + 1, Len(front))

RECURSIVE sort_by_score_desc(_)
\* slice::sort_by with |a, b| b.cmp(a) on the scores: stable, so entries of
\* equal score keep their relative order.
sort_by_score_desc(matched) ==
    IF matched = <<>> THEN <<>>
    ELSE LET x == matched[Len(matched)]
             front == sort_by_score_desc(SubSeq(matched, 1, Len(matched) - 1))
             n == Cardinality({i \in 1..Len(front) : front[i].score >= x.score})
         IN  SubSeq(front, 1, n) \o <<x>> \o SubSeq(front, n + 1, Len(front))

RECURSIVE filter_matches(_, _, _)
\* The filter_map over students.iter(): the entries whose lowercased name
\* matches the lowercased input, with their scores, in iteration order.
filter_matches(self, it, i) ==
    IF i > Len(it) THEN <<>>
    ELSE LET entry == self.students[it[i]]
             m == fuzzy_match(to_lowercase(entry.name), to_lowercase(self.input))
         IN  (IF m # None THEN <<[s |-> entry, score |-> m[1]]>> ELSE <<>>)
             \o filter_matches(self, it, i + 1)

update_student_view(self, it) ==
    IF ByteLen(self.input) # 0
    THEN LET matched == sort_by_score_desc(filter_matches(self, it, 1))
             v == [i \in 1..Len(matched) |-> matched[i].s.email]
         IN  selection_reset([self EXCEPT !.view = v])
    ELSE IF \E i \in 1..Len(self.order) : self.order[i] \notin DOMAIN self.students
    THEN Panicked(self,
             "The order is inconsistent and has a student not in the db.")
    ELSE LET v == [i \in 1..Len(self.order) |-> self.students[self.order[i]].email]
         IN  selection_reset([self EXCEPT !.view = v])

(* ------------------------------ the input ------------------------------ *)

\* byte_index taking the character position for the byte offset.
byte_index_in_chars(self) == self.character_index

\* The byte offset of character number character_index, or the byte length
\* of the input when there is no such character.
byte_index(self) ==
    IF self.character_index < Len(self.input)
    THEN ByteLen(SubSeq(self.input, 1, self.character_index))
    ELSE ByteLen(self.input)

\* The byte offsets at which a character starts, and the end of the string.
CharBoundaries(s) == {ByteLen(SubSeq(s, 1, n)) : n \in 0..Len(s)}

\* String::insert: panics unless index is a character boundary.
StringInsert(s, index, ch) ==
    LET n == CHOOSE n \in 0..Len(s) : ByteLen(SubSeq(s, 1, n)) = index
    IN  SubSeq(s, 1, n) \o <<ch>> \o SubSeq(s, n + 1, Len(s))

enter_char(self, it, new_char) ==
    LET index == byte_index(self)
    IN  IF index \notin CharBoundaries(self.input)
        THEN Panicked(self, "assertion failed: self.is_char_boundary(idx)")
        ELSE LET typed == [self EXCEPT
                              !.input = StringInsert(self.input, index, new_char)]
             IN  update_student_view(move_cursor_right(typed), it)

\* delete_char that leaves the view as it was.
delete_char_stale_view(self, it) ==
    IF self.character_index # 0
    THEN LET current_index == self.character_index
             cut == [self EXCEPT
                        !.input = SubSeq(self.input, 1, current_index - 1)
                                  \o SubSeq(self.input, current_index + 1,
                                            Len(self.input))]
         IN  move_cursor_left(cut)
    ELSE self

delete_char(self, it) ==
    LET is_not_cursor_leftmost == self.character_index # 0
    IN  IF is_not_cursor_leftmost
        THEN LET current_index == self.character_index
                 from_left_to_current_index == current_index - 1
                 before_char_to_delete ==
                     SubSeq(self.input, 1,
                            clamp(from_left_to_current_index, 0, Len(self.input)))
                 after_char_to_delete ==
                     SubSeq(self.input, current_index + 1, Len(self.input))
                 cut == [self EXCEPT
                            !.input = before_char_to_delete \o after_char_to_delete]
             IN  update_student_view(move_cursor_left(cut), it)
        ELSE update_student_view(self, it)

\* reset_cursor leaving the cursor where it is.
reset_cursor_noop(self) == self

reset_cursor(self) == [self EXCEPT !.character_index = 0]

\* input_clear without the recomputation of the view.
input_clear_stale_view(self, it) == reset_cursor([self EXCEPT !.input = <<>>])

\* input_clear that keeps the query.
input_clear_keep_query(self, it) == update_student_view(reset_cursor(self), it)

input_clear(self, it) ==
    update_student_view(reset_cursor([self EXCEPT !.input = <<>>]), it)

(* ---------------------------- student mode ----------------------------- *)

\* display_selected_student taking the first entry of the view.
display_selected_student_first(self) ==
    LET r == selected_student([self EXCEPT
                 !.selection = IF @ = None THEN None ELSE Some(0)])
    IN  IF r.panic # "none" THEN Panicked(self, r.panic)
        ELSE [self EXCEPT !.student_display = r.val]

display_selected_student(self) ==
    LET r == selected_student(self)
    IN  IF r.panic # "none" THEN Panicked(self, r.panic)
        ELSE [self EXCEPT !.student_display = r.val]

\* input_mode that looks at the display mode alone.
input_mode_of_display(self) ==
    IF self.display_mode = "Command" THEN "Command" ELSE "Searching"

input_mode(self) ==
    IF self.student_display # None THEN "Student"
    ELSE IF self.display_mode = "Command" THEN "Command" ELSE "Searching"

\* student_escape that also falls back to Command.
student_escape_to_command(self) ==
    [self EXCEPT !.student_display = None, !.display_mode = "Command"]

student_escape(self) == [self EXCEPT !.student_display = None]

\* student_absent counting the absence in the registry.
student_absent_counting(self) ==
    LET key == self.student_display[1].email
    IN  student_escape([self EXCEPT !.students[key].absent = @ + 1])

student_absent(self) == student_escape(self)

\* student_defer counting the deferral in the registry.
student_defer_counting(self) ==
    LET key == self.student_display[1].email
    IN  student_escape([self EXCEPT !.students[key].deferrals = @ + 1])

student_defer(self) == student_escape(self)

(* --------------------------- order generation -------------------------- *)

RECURSIVE fold_max_min(_, _, _)
\* The fold of randomize over students.iter(): <<max, min>> of the scores,
\* starting from acc.
fold_max_min(sts, it, acc) ==
    IF it = <<>> THEN acc
    ELSE LET p == sts[Head(it)].participation_score
             max == IF acc[1] >= p THEN acc[1] ELSE p
             min == IF acc[2] <= p THEN acc[2] ELSE p
         IN  fold_max_min(sts, Tail(it), <<max, min>>)

\* The ticket loop with the exclusive range 0..chances.
tickets_exclusive(s, min, norm) ==
    [i \in 1..WrapSub(norm, WrapSub(s.participation_score, min)) |-> s.email]

\* let chances: usize = norm - (s.participation_score - min)
chances(s, min, norm) == WrapSub(norm, WrapSub(s.participation_score, min))

\* The subtractions of chances overflow.
chances_overflow(s, min, norm) ==
    \/ s.participation_score < min
    \/ norm < WrapSub(s.participation_score, min)

\* for _ in 0..=chances { bag.push(s.email.clone()) }
tickets(s, min, norm) == [i \in 1..(chances(s, min, norm) + 1) |-> s.email]

RECURSIVE fill_bag(_, _, _, _)
\* The bag after the loop over students.iter_mut().
fill_bag(sts, it, min, norm) ==
    IF it = <<>> THEN <<>>
    ELSE tickets(sts[Head(it)], min, norm) \o fill_bag(sts, Tail(it), min, norm)

\* (((score - min) as f64 / norm as f64) * 4.0).round() as usize: 0.0 / 0.0
\* is NaN and casts to 0, x / 0.0 is infinite and casts to usize::MAX, and
\* round takes halves away from zero.
\* color_of scaling by the number of colors, 5.0, instead of 4.0.
color_of_by_count(s, min, norm) ==
    LET d == WrapSub(s.participation_score, min)
    IN  IF norm = 0 THEN (IF d = 0 THEN 0 ELSE USIZE_MAX)
        ELSE (10 * d + norm) \div (2 * norm)

color_of(s, min, norm) ==
    LET d == WrapSub(s.participation_score, min)
    IN  IF norm = 0 THEN (IF d = 0 THEN 0 ELSE USIZE_MAX)
        ELSE (8 * d + norm) \div (2 * norm)

\* b without its first occurrence of k.
RemoveFirst(b, k) ==
    LET i == CHOOSE i \in 1..Len(b) : b[i] = k /\ \A j \in 1..(i - 1) : b[j] # k
    IN  SubSeq(b, 1, i - 1) \o SubSeq(b, i + 1, Len(b))

RECURSIVE Shuffles(_)
\* slice::shuffle: every arrangement of the bag can come out.
Shuffles(b) ==
    IF b = <<>> THEN {<<>>}
    ELSE UNION {{<<k>> \o rest : rest \in Shuffles(RemoveFirst(b, k))} :
                 k \in Range(b)}

\* The walk pushing every key of the shuffled bag.
first_occurrences_keep_all(b) == b

RECURSIVE first_occurrences(_)
\* The walk over the shuffled bag that pushes a key unless order has it.
first_occurrences(b) ==
    IF b = <<>> THEN <<>>
    ELSE LET front == first_occurrences(SubSeq(b, 1, Len(b) - 1))
             k == b[Len(b)]
         IN  IF k \in Range(front) THEN front ELSE Append(front, k)

\* The set of outcomes of randomize: one for every order the shuffle can
\* give, or what an overflowing subtraction makes of them.
randomize(self, it) ==
    LET sts == self.students
        mm == fold_max_min(sts, it, <<0, USIZE_MAX>>)
        max == mm[1]
        min == mm[2]
        norm == WrapSub(max, min)
        overflow == \/ max < min
                    \/ \E k \in DOMAIN sts : chances_overflow(sts[k], min, norm)
        b == fill_bag(sts, it, min, norm)
        coloured == [k \in DOMAIN sts |->
                        [sts[k] EXCEPT !.color = color_of(sts[k], min, norm)]]
        filled == [self EXCEPT !.students = coloured, !.bag = b]
        finish(o) ==
            IF Cardinality(DOMAIN sts) # Len(o)
            THEN Panicked(filled,
                     "assertion failed: self.students.len() == order.len()")
            ELSE LET r == update_student_view([filled EXCEPT !.order = o], it)
                 IN  IF r.panic # "none" THEN r ELSE selection_reset(r)
        orders == {first_occurrences(shuffled) : shuffled \in Shuffles(b)}
    IN  IF overflow
        THEN UNION {Overflow(self, "attempt to subtract with overflow",
                             finish(o)) : o \in orders}
        ELSE {finish(o) : o \in orders}

\* update_data that leaves the order as it is.
update_data_no_randomize(self, it) == {self}

update_data(self, it) == randomize(self, it)

\* student_answer without the answered_today increment.
student_answer_score_only(self, it) ==
    LET key == self.student_display[1].email
        answered ==
            [self EXCEPT !.students[key].participation_score = @ + 1]
    IN  {student_escape(r) : r \in update_data(answered, it)}

\* student_answer that leaves the snapshot on display.
student_answer_keep_snapshot(self, it) ==
    LET key == self.student_display[1].email
        answered ==
            [self EXCEPT !.students[key].participation_score = @ + 1,
                         !.students[key].answered_today = @ + 1]
    IN  update_data(answered, it)

\* The set of outcomes of student_answer.
student_answer(self, it) ==
    IF self.student_display = None
    THEN {Panicked(self, "assertion failed: self.student_display.is_some()")}
    ELSE LET key == self.student_display[1].email
         IN  IF key \notin DOMAIN self.students
             THEN {Panicked(self,
                 "Student database became inconsistent with active student")}
             ELSE LET s == self.students[key]
                      overflow == \/ s.participation_score = USIZE_MAX
                                  \/ s.answered_today = USIZE_MAX
                      t == [s EXCEPT
                              !.participation_score = WrapAdd(@, 1),
                              !.answered_today = WrapAdd(@, 1)]
                      answered == [self EXCEPT !.students[key] = t]
                      rest(a) == {IF r.panic # "none" THEN r
                                  ELSE student_escape(r) :
                                     r \in update_data(a, it)}
                  IN  IF overflow
                      THEN UNION {rest(a) :
                               a \in Overflow(self,
                                        "attempt to add with overflow",
                                        answered)}
                      ELSE rest(answered)

(* ------------------------------ run_app -------------------------------- *)

\* The characters the operator types into the query.
Typed == {"A", "u00E9"}

\* The iteration orders a HashMap with these keys can have.
IterOrders(keys) ==
    {it \in [1..Cardinality(keys) -> keys] :
        \A i, j \in 1..Cardinality(keys) : it[i] = it[j] => i = j}

\* The state a handler leaves behind: the fields of r, the process dead at
\* the point of the panic if r panicked.
Commit(r, cmd) ==
    /\ last' = cmd
    /\ pc' = IF r.panic # "none" THEN "abort" ELSE "loop"
    /\ panic' = r.panic
    /\ overflow_checks' = r.overflow_checks
    /\ overflowed' = r.overflowed
    /\ input' = r.input
    /\ character_index' = r.character_index
    /\ display_mode' = r.display_mode
    /\ student_display' = r.student_display
    /\ students' = r.students
    /\ order' = r.order
    /\ view' = r.view
    /\ selection' = r.selection
    /\ bag' = r.bag

Init ==
    /\ pc = "new"
    /\ panic = "none"
    /\ overflow_checks = "unknown"
    /\ overflowed = FALSE
    /\ input = <<>>
    /\ character_index = 0
    /\ display_mode = "Command"
    /\ student_display = None
    /\ students = <<>>
    /\ iter_order = <<>>
    /\ order = <<>>
    /\ view = <<>>
    /\ selection = None
    /\ bag = <<>>
    /\ last = "none"

\* App::new on a readable file.
New ==
    /\ pc = "new"
    /\ \E rows \in Files :
         LET loaded == deserialize_file(rows)
         IN  \E it \in IterOrders(DOMAIN loaded) :
               /\ iter_order' = it
               /\ \E r \in randomize([Self EXCEPT !.students = loaded], it) :
                    Commit(r, "new")

\* App::new on a file that cannot be opened or has a malformed record.
NewErr ==
    /\ pc = "new"
    /\ pc' = "exit"
    /\ last' = "new_err"
    /\ overflowed' = FALSE
    /\ UNCHANGED <<panic, overflow_checks, input, character_index,
                   display_mode, student_display, students, iter_order,
                   order, view, selection, bag>>

\* A key code no arm matches, or a key event the arm's guard rejects.
Ignore(cmd) ==
    /\ last' = cmd
    /\ overflowed' = FALSE
    /\ UNCHANGED <<pc, panic, overflow_checks, input, character_index,
                   display_mode, student_display, students, iter_order,
                   order, view, selection, bag>>

InMode(m) == pc = "loop" /\ input_mode(Self) = m

CommandSearch ==
    /\ InMode("Command")
    /\ Commit([Self EXCEPT !.display_mode = "Searching"], "search")
    /\ UNCHANGED iter_order

CommandRandomize ==
    /\ InMode("Command")
    /\ \E r \in randomize(Self, iter_order) : Commit(r, "randomize")
    /\ UNCHANGED iter_order

CommandQuit ==
    /\ InMode("Command")
    /\ pc' = "exit"
    /\ last' = "quit"
    /\ overflowed' = FALSE
    /\ UNCHANGED <<panic, overflow_checks, input, character_index,
                   display_mode, student_display, students, iter_order,
                   order, view, selection, bag>>

CommandDown ==
    /\ InMode("Command")
    /\ \E r \in move_selection_down(Self) : Commit(r, "down")
    /\ UNCHANGED iter_order

CommandUp ==
    /\ InMode("Command")
    /\ Commit(move_selection_up(Self), "up")
    /\ UNCHANGED iter_order

CommandEnter ==
    /\ InMode("Command")
    /\ Commit(display_selected_student(Self), "enter")
    /\ UNCHANGED iter_order

CommandOther ==
    /\ InMode("Command")
    /\ Ignore("other")

SearchingEnter ==
    /\ InMode("Searching")
    /\ Commit(display_selected_student(Self), "enter")
    /\ UNCHANGED iter_order

SearchingUp ==
    /\ InMode("Searching")
    /\ Commit(move_selection_up(Self), "up")
    /\ UNCHANGED iter_order

SearchingDown ==
    /\ InMode("Searching")
    /\ \E r \in move_selection_down(Self) : Commit(r, "down")
    /\ UNCHANGED iter_order

SearchingChar ==
    /\ InMode("Searching")
    /\ Len(input) < MaxInput
    /\ \E to_insert \in Typed :
         Commit(enter_char(Self, iter_order, to_insert), "char")
    /\ UNCHANGED iter_order

SearchingBackspace ==
    /\ InMode("Searching")
    /\ Commit(delete_char(Self, iter_order), "backspace")
    /\ UNCHANGED iter_order

SearchingLeft ==
    /\ InMode("Searching")
    /\ Commit(move_cursor_left(Self), "left")
    /\ UNCHANGED iter_order

SearchingRight ==
    /\ InMode("Searching")
    /\ Commit(move_cursor_right(Self), "right")
    /\ UNCHANGED iter_order

SearchingEsc ==
    /\ InMode("Searching")
    /\ Commit(input_clear([Self EXCEPT !.display_mode = "Command"], iter_order),
              "esc")
    /\ UNCHANGED iter_order

\* Any other key code, and any key event that is not a press.
SearchingOther ==
    /\ InMode("Searching")
    /\ Ignore("other")

StudentDefer ==
    /\ InMode("Student")
    /\ Commit(student_defer(Self), "defer")
    /\ UNCHANGED iter_order

StudentAbsent ==
    /\ InMode("Student")
    /\ Commit(student_absent(Self), "absent")
    /\ UNCHANGED iter_order

RECURSIVE AnswersGiven(_, _)
\* The answers recorded so far in the session.
AnswersGiven(sts, it) ==
    IF it = <<>> THEN 0
    ELSE sts[Head(it)].answered_today + AnswersGiven(sts, Tail(it))

StudentAnswer ==
    /\ InMode("Student")
    /\ AnswersGiven(students, iter_order) < MaxAnswers
    /\ \E r \in student_answer(Self, iter_order) : Commit(r, "answer")
    /\ UNCHANGED iter_order

StudentEsc ==
    /\ InMode("Student")
    /\ Commit(student_escape(Self), "student_esc")
    /\ UNCHANGED iter_order

StudentOther ==
    /\ InMode("Student")
    /\ Ignore("other")

Next ==
    \/ New
    \/ NewErr
    \/ CommandSearch
    \/ CommandRandomize
    \/ CommandQuit
    \/ CommandDown
    \/ CommandUp
    \/ CommandEnter
    \/ CommandOther
    \/ SearchingEnter
    \/ SearchingUp
    \/ SearchingDown
    \/ SearchingChar
    \/ SearchingBackspace
    \/ SearchingLeft
    \/ SearchingRight
    \/ SearchingEsc
    \/ SearchingOther
    \/ StudentDefer
    \/ StudentAbsent
    \/ StudentAnswer
    \/ StudentEsc
    \/ StudentOther

Spec == Init /\ [][Next]_vars

(* ------------------------------ properties ----------------------------- *)

\* The commands that regenerate the order.
Regenerations == {"new", "randomize", "answer"}

\* The number of occurrences of k in the sequence b.
Count(b, k) == Cardinality({i \in 1..Len(b) : b[i] = k})

\* The scores in the registry.
Scores(sts) == {sts[k].participation_score : k \in DOMAIN sts}

MinScore(sts) == CHOOSE m \in Scores(sts) : \A p \in Scores(sts) : m <= p

MaxScoreOf(sts) == CHOOSE m \in Scores(sts) : \A p \in Scores(sts) : m >= p

\* o holds every key of sts exactly once.
IsPermutationOfKeys(o, sts) ==
    /\ Len(o) = Cardinality(DOMAIN sts)
    /\ \A i, j \in 1..Len(o) : o[i] = o[j] => i = j
    /\ \A i \in 1..Len(o) : o[i] \in DOMAIN sts

\* C1: in every reachable state Selection is absent exactly when View is
\* empty, and otherwise it is an index into View: 0 <= Selection < len(View).
SelectionClamp ==
    /\ selection = None <=> view = <<>>
    /\ selection # None => 0 <= selection[1] /\ selection[1] < Len(view)

\* C1 witness: a query that matches no name has left View empty and
\* Selection absent, over a registry that has students.
SelectionClampWitness ==
    /\ pc = "loop"
    /\ last = "char"
    /\ input # <<>>
    /\ DOMAIN students # {}
    /\ view = <<>>
    /\ selection = None

\* C2: after every regeneration of the order (start, reshuffle, answer) over
\* a non-empty registry, the regeneration has not panicked and Order holds
\* every registry key exactly once: the registry's length, no duplicates, no
\* foreign keys.
OrderIsPermutation ==
    (last \in Regenerations /\ DOMAIN students # {}) =>
        /\ panic = "none"
        /\ IsPermutationOfKeys(order, students)

\* C2 witness: an order of three students regenerated by answer.
OrderIsPermutationWitness ==
    /\ pc = "loop"
    /\ last = "answer"
    /\ Len(order) = 3
    /\ Cardinality(DOMAIN students) = 3

\* The panics of a key missing from the registry.
MissingKeyPanics ==
    {"View has a stale student not in the student db.",
     "The order is inconsistent and has a student not in the db.",
     "Student database became inconsistent with active student"}

\* C3: in every reachable state every key in Order, every key in View and
\* the key of the snapshot is a key of the Registry, and no missing-key
\* panic has happened.
ReferentialIntegrity ==
    /\ Range(order) \subseteq DOMAIN students
    /\ Range(view) \subseteq DOMAIN students
    /\ student_display # None => student_display[1].email \in DOMAIN students
    /\ panic \notin MissingKeyPanics

\* C3 witness: a snapshot taken from a filtered view of a student whose
\* email was trimmed at load.
ReferentialIntegrityWitness ==
    /\ pc = "loop"
    /\ student_display # None
    /\ student_display[1].email = <<"x">>
    /\ input # <<>>
    /\ Len(order) = 3

\* C4: answer in Student mode adds exactly 1 to the participation score and
\* to the answered-today counter of the registry entry with the snapshot's
\* key, and changes no score, deferral count, absence count or answered-today
\* counter of any other student, nor the deferral and absence counts of the
\* answered student.
AnswerCounts ==
    [][(last' = "answer" /\ student_display # None) =>
        LET key == student_display[1].email
        IN  /\ DOMAIN students' = DOMAIN students
            /\ students'[key].participation_score =
                   students[key].participation_score + 1
            /\ students'[key].answered_today =
                   students[key].answered_today + 1
            /\ students'[key].deferrals = students[key].deferrals
            /\ students'[key].absent = students[key].absent
            /\ \A k \in DOMAIN students \ {key} :
                 /\ students'[k].participation_score =
                        students[k].participation_score
                 /\ students'[k].answered_today = students[k].answered_today
                 /\ students'[k].deferrals = students[k].deferrals
                 /\ students'[k].absent = students[k].absent]_vars

\* C4 witness: answer has just taken a student from score 3 to 4, another
\* student still at zero answers.
AnswerCountsWitness ==
    /\ pc = "loop"
    /\ last = "answer"
    /\ \E k, o \in DOMAIN students :
         /\ k # o
         /\ students[k].answered_today = 1
         /\ students[k].participation_score = 4
         /\ students[o].answered_today = 0

\* The ticket count of student k by the lottery rule: range - (score - min) + 1.
TicketsFor(sts, k) ==
    (MaxScoreOf(sts) - MinScore(sts))
        - (sts[k].participation_score - MinScore(sts)) + 1

\* The App value the step leaves behind.
SelfAfter ==
    [panic |-> panic', overflow_checks |-> overflow_checks',
     overflowed |-> overflowed', input |-> input',
     character_index |-> character_index', display_mode |-> display_mode',
     student_display |-> student_display', students |-> students',
     order |-> order', view |-> view', selection |-> selection',
     bag |-> bag']

\* C5: after answer in Student mode the snapshot is cleared, the interaction
\* mode is the display mode that was active under the snapshot, and within
\* the same step Order has been regenerated from the updated scores (the bag
\* carries the tickets of the new scores, Order is a permutation of the keys),
\* View is what the current query gives over the new Order, and Selection is
\* reset.
AnswerReturns ==
    [][(last' = "answer" /\ student_display # None) =>
        /\ panic' = "none"
        /\ student_display' = None
        /\ display_mode' = display_mode
        /\ input_mode(SelfAfter) = display_mode
        /\ input' = input
        /\ \A k \in DOMAIN students' :
             Count(bag', k) = TicketsFor(students', k)
        /\ IsPermutationOfKeys(order', students')
        /\ view' = update_student_view(SelfAfter, iter_order').view
        /\ selection' = IF view' = <<>> THEN None ELSE Some(0)]_vars

\* C5 witness: answer given from a search for the last of three matches has
\* returned to Searching with the selection back on the first.
AnswerReturnsWitness ==
    /\ pc = "loop"
    /\ last = "answer"
    /\ display_mode = "Searching"
    /\ input # <<>>
    /\ student_display = None
    /\ Len(view) = 3
    /\ selection = Some(0)
    /\ students[view[3]].answered_today = 1

\* The commands that leave Student mode without an answer.
Dismissals == {"absent", "defer", "student_esc"}

\* C6: absent, defer and escape in Student mode discard the snapshot, return
\* to the display mode underneath, and change nothing else: Registry, Order,
\* View, Selection, query and query cursor stay as they were.
DismissalFrame ==
    [][(last' \in Dismissals /\ student_display # None) =>
        /\ student_display' = None
        /\ input_mode(SelfAfter) = display_mode
        /\ UNCHANGED <<students, order, view, selection, input,
                       character_index, display_mode>>]_vars

\* C6 witness: defer has closed a snapshot taken in a search on the second
\* entry of the view, and the selection is still there.
DismissalFrameWitness ==
    /\ pc = "loop"
    /\ last = "defer"
    /\ display_mode = "Searching"
    /\ input # <<>>
    /\ selection = Some(1)
    /\ student_display = None

\* C7: every command issued in the event loop completes without a panic
\* (assertion, missing key, index) and without overflowing a usize.
CommandsTotal ==
    last \notin {"none", "new", "new_err"} =>
        /\ panic = "none"
        /\ ~overflowed

\* C8: a regeneration over an empty registry neither panics nor overflows,
\* and leaves Order and View empty and Selection absent.
EmptyRegistryRegenerates ==
    (last \in Regenerations /\ DOMAIN students = {}) =>
        /\ panic = "none"
        /\ ~overflowed
        /\ order = <<>>
        /\ view = <<>>
        /\ selection = None

\* C9: the bag of the latest regeneration holds each student's key exactly
\* range - (score - min) + 1 times: range + 1 times for a student at the
\* minimum score, once for a student at the maximum score, at least once for
\* everyone, and once each when all scores are equal.
TicketCounts ==
    LET min == MinScore(students)
        max == MaxScoreOf(students)
    IN  \A k \in DOMAIN students :
          /\ Count(bag, k) = TicketsFor(students, k)
          /\ Count(bag, k) >= 1
          /\ students[k].participation_score = min =>
                 Count(bag, k) = max - min + 1
          /\ students[k].participation_score = max => Count(bag, k) = 1
          /\ min = max => Count(bag, k) = 1

\* C9 witness: scores 2, 4 and 3 (range 2) have given three tickets, one
\* and two.
TicketCountsWitness ==
    /\ pc = "loop"
    /\ \E a, b, c \in DOMAIN students :
         /\ students[a].participation_score = 2
         /\ students[b].participation_score = 4
         /\ students[c].participation_score = 3
         /\ Count(bag, a) = 3
         /\ Count(bag, b) = 1
         /\ Count(bag, c) = 2

\* C10: whenever the query is empty, View is Order: the same keys in the same
\* sequence.
EmptyQueryShowsOrder == input = <<>> => view = order

\* C10 witness: escape from a search has put the whole order of three
\* students back.
EmptyQueryShowsOrderWitness ==
    /\ pc = "loop"
    /\ last = "esc"
    /\ input = <<>>
    /\ Len(order) = 3
    /\ view = order

\* The commands that change the query string.
QueryMutations == {"char", "backspace", "esc"}

\* C11: after every mutation of the query string (character insert,
\* backspace, clear on search escape) View is what update_student_view gives
\* for the new query, and Selection is 0 if that View is non-empty and absent
\* otherwise, wherever Selection was before.
QueryMutationRecomputes ==
    last \in QueryMutations =>
        /\ panic = "none"
        /\ view = update_student_view(Self, iter_order).view
        /\ selection = IF view = <<>> THEN None ELSE Some(0)

\* C11 witness: a backspace has left a query that matches two or more
\* students, with the selection on the first.
QueryMutationRecomputesWitness ==
    /\ pc = "loop"
    /\ last = "backspace"
    /\ input # <<>>
    /\ Len(view) >= 2
    /\ selection = Some(0)

\* C12 as stated: confirm-selection in Command or Searching mode moves the
\* machine to Student state (here over a registry that has students).
ConfirmEntersStudent ==
    (last = "enter" /\ pc = "loop" /\ DOMAIN students # {}) =>
        input_mode(Self) = "Student"

\* C12: confirm-selection in Command or Searching mode with Selection present
\* moves the machine to Student state with the snapshot equal to the
\* Registry entry of View[Selection]; with Selection absent it leaves the
\* snapshot absent and the mode as it was.  In both cases nothing else
\* changes.
ConfirmSnapshots ==
    [][(last' = "enter" /\ student_display = None) =>
        /\ panic' = "none"
        /\ UNCHANGED <<students, order, view, selection, input,
                       character_index, display_mode>>
        /\ IF selection # None
           THEN /\ student_display' = Some(students[view[selection[1] + 1]])
                /\ input_mode(SelfAfter) = "Student"
           ELSE /\ student_display' = None
                /\ input_mode(SelfAfter) = display_mode]_vars

\* C12 witness: confirm-selection in a search has taken the snapshot of the
\* second entry of the view.
ConfirmSnapshotsWitness ==
    /\ pc = "loop"
    /\ last = "enter"
    /\ display_mode = "Searching"
    /\ selection = Some(1)
    /\ student_display = Some(students[view[2]])

\* C13: the interaction state is Student exactly when a snapshot is present;
\* no step taken while a snapshot is present, and no step that takes one,
\* changes the display mode underneath; and a step that drops the snapshot
\* lands in the display mode that was active when the snapshot was taken.
StudentPrecedence ==
    [][/\ input_mode(SelfAfter) = "Student" <=> student_display' # None
       /\ student_display # None => display_mode' = display_mode
       /\ (student_display = None /\ student_display' # None) =>
              /\ display_mode' = display_mode
              /\ input_mode(Self) = display_mode
       /\ (student_display # None /\ student_display' = None) =>
              input_mode(SelfAfter) = display_mode]_vars

\* C13 witness: escape has closed a snapshot taken in a search, and the
\* machine is back in Searching with its query.
StudentPrecedenceWitness ==
    /\ pc = "loop"
    /\ last = "student_esc"
    /\ student_display = None
    /\ display_mode = "Searching"
    /\ input_mode(Self) = "Searching"
    /\ input # <<>>

\* C14: escape in Searching mode moves to Command mode, empties the query,
\* puts the query cursor at 0, and makes View equal to Order with Selection
\* at 0 (absent if Order is empty); Order and the Registry are unchanged.
SearchEscape ==
    [][last' = "esc" =>
        /\ panic' = "none"
        /\ display_mode = "Searching"
        /\ display_mode' = "Command"
        /\ input_mode(SelfAfter) = "Command"
        /\ input' = <<>>
        /\ character_index' = 0
        /\ view' = order
        /\ selection' = IF order = <<>> THEN None ELSE Some(0)
        /\ UNCHANGED <<order, students>>]_vars

\* C14 witness: escape has left Command mode with the cursor at 0 and the
\* selection on the first of three students.
SearchEscapeWitness ==
    /\ pc = "loop"
    /\ last = "esc"
    /\ display_mode = "Command"
    /\ character_index = 0
    /\ Len(view) = 3
    /\ selection = Some(0)

\* C15: moveUp leaves Selection unchanged when it is absent or 0 and
\* otherwise decrements it by one; moveDown leaves Selection unchanged when
\* it is absent or len(View) - 1 and otherwise increments it by one; neither
\* panics or overflows, and neither changes View, Order, the query or the
\* Registry.
SelectionMoves ==
    [][/\ last' = "up" =>
              selection' = IF selection = None \/ selection = Some(0)
                           THEN selection
                           ELSE Some(selection[1] - 1)
       /\ last' = "down" =>
              selection' = IF selection = None
                              \/ selection = Some(Len(view) - 1)
                           THEN selection
                           ELSE Some(selection[1] + 1)
       /\ last' \in {"up", "down"} =>
              /\ panic' = "none"
              /\ ~overflowed'
              /\ UNCHANGED <<view, order, input, character_index, students,
                             display_mode, student_display>>]_vars

\* C15 witness: moveUp has taken the selection from the last of three
\* entries to the middle one.
SelectionMovesWitness ==
    /\ pc = "loop"
    /\ last = "up"
    /\ Len(view) = 3
    /\ selection = Some(1)

\* C16: on every step after the load the set of registry keys is unchanged,
\* no participation score decreases, no deferral or absence count changes,
\* and a step that is not an answer changes no score and no answered-today
\* counter.
RegistryLifecycle ==
    [][pc # "new" =>
        /\ DOMAIN students' = DOMAIN students
        /\ \A k \in DOMAIN students :
             /\ students'[k].participation_score
                    >= students[k].participation_score
             /\ students'[k].deferrals = students[k].deferrals
             /\ students'[k].absent = students[k].absent
             /\ last' # "answer" =>
                    /\ students'[k].participation_score
                           = students[k].participation_score
                    /\ students'[k].answered_today
                           = students[k].answered_today]_vars

\* C16 witness: after an answer, an absent has been recorded for a student
\* while the registry holds three students, one loaded with one deferral and
\* one loaded with two absences.
RegistryLifecycleWitness ==
    /\ pc = "loop"
    /\ last = "absent"
    /\ Cardinality(DOMAIN students) = 3
    /\ \E k, d, a \in DOMAIN students :
         /\ students[k].answered_today = 1
         /\ students[d].deferrals = 1
         /\ students[a].absent = 2

\* C17: after every regeneration that did not panic every student's tier
\* lies in 0..NumColors - 1; when range = max - min > 0 the tier is
\* (NumColors - 1) * (score - min) / range rounded to the nearest integer,
\* so 0 at the minimum score and NumColors - 1 at the maximum; when range = 0
\* every tier is 0.
DisplayTiers ==
    (last \in Regenerations /\ panic = "none") =>
        \A k \in DOMAIN students :
            LET min == MinScore(students)
                range == MaxScoreOf(students) - min
                d == students[k].participation_score - min
                tier == students[k].color
                top == NumColors - 1
            IN  /\ tier \in 0..top
                /\ range > 0 =>
                       /\ (2 * tier - 1) * range <= 2 * top * d
                       /\ 2 * top * d < (2 * tier + 1) * range
                       /\ d = 0 => tier = 0
                       /\ d = range => tier = top
                /\ range = 0 => tier = 0

\* C17 witness: scores 2, 3 and 4 after an answer, with tiers 0, 2 and 4.
DisplayTiersWitness ==
    /\ pc = "loop"
    /\ last = "answer"
    /\ \E a, b, c \in DOMAIN students :
         /\ students[a].participation_score = 2 /\ students[a].color = 0
         /\ students[b].participation_score = 3 /\ students[b].color = 2
         /\ students[c].participation_score = 4 /\ students[c].color = 4

\* C18: in every reachable state the character cursor lies in
\* 0..number of characters of the query, the byte offset at which a character
\* would be inserted is the start of a character or the end of the query,
\* and no insertion has failed on a split character.
CursorInCharacters ==
    /\ character_index \in 0..Len(input)
    /\ byte_index(Self) \in CharBoundaries(input)
    /\ byte_index(Self) = ByteLen(SubSeq(input, 1, character_index))
    /\ panic # "assertion failed: self.is_char_boundary(idx)"

\* C18 witness: a one-byte character has been inserted after a two-byte
\* character, at byte offset 2 and character position 1.
CursorInCharactersWitness ==
    /\ pc = "loop"
    /\ last = "char"
    /\ input = <<"u00E9", "A">>
    /\ character_index = 2
    /\ byte_index(Self) = 3

RECURSIVE IsSubsequence(_, _)
\* The characters of p occur in c in the same order.
IsSubsequence(p, c) ==
    IF p = <<>> THEN TRUE
    ELSE IF c = <<>> THEN FALSE
    ELSE IF Head(p) = Head(c) THEN IsSubsequence(Tail(p), Tail(c))
    ELSE IsSubsequence(p, Tail(c))

\* The match score of student k for the current query.
MatchScore(k) ==
    fuzzy_match(to_lowercase(students[k].name), to_lowercase(input))[1]

\* The position of key k in the registry's iteration.
IterPosition(k) == CHOOSE i \in 1..Len(iter_order) : iter_order[i] = k

\* C19: whenever the query is non-empty, View holds exactly the keys of the
\* students whose lowercased name has the lowercased query as a subsequence,
\* each once, in descending match score with students of equal score in
\* registry iteration order; and recomputing View from the same query and
\* Registry gives the same sequence, once and twice.
FilterDeterministic ==
    (input # <<>> /\ panic = "none") =>
        /\ Range(view) =
               {k \in DOMAIN students :
                   IsSubsequence(to_lowercase(input),
                                 to_lowercase(students[k].name))}
        /\ \A i, j \in 1..Len(view) : i < j =>
               /\ view[i] # view[j]
               /\ \/ MatchScore(view[i]) > MatchScore(view[j])
                  \/ /\ MatchScore(view[i]) = MatchScore(view[j])
                     /\ IterPosition(view[i]) < IterPosition(view[j])
        /\ update_student_view(Self, iter_order).view = view
        /\ update_student_view(update_student_view(Self, iter_order),
                               iter_order).view = view

\* C19 witness: a query that matches all three students, two of them with
\* the same score and shown in iteration order, against their places in
\* Order.
FilterDeterministicWitness ==
    /\ pc = "loop"
    /\ input = <<"A">>
    /\ Len(view) = 3
    /\ MatchScore(view[1]) > MatchScore(view[2])
    /\ MatchScore(view[2]) = MatchScore(view[3])
    /\ IterPosition(view[2]) < IterPosition(view[3])
    /\ \E i, j \in 1..Len(order) :
         i < j /\ order[i] = view[3] /\ order[j] = view[2]

\* The commands of Student mode.
StudentCommands == {"answer", "absent", "defer", "student_esc"}

\* C20: while a snapshot is present, a step that is not answer, absent,
\* defer or escape leaves the whole state unchanged: Registry, Order, View,
\* Selection, query, cursor, display mode and snapshot, and the process
\* keeps running.
StudentModal ==
    [][student_display # None =>
        \/ last' \in StudentCommands
        \/ UNCHANGED <<students, order, view, selection, input,
                       character_index, display_mode, student_display,
                       pc, panic>>]_vars

\* C20 witness: a key with no meaning in Student mode has been pressed while
\* the snapshot of a search result is shown.
StudentModalWitness ==
    /\ pc = "loop"
    /\ last = "other"
    /\ student_display # None
    /\ display_mode = "Searching"
    /\ input # <<>>
    /\ selection = Some(1)

\* C21: whenever the display mode is Command, the query is empty and the
\* query cursor is 0, and so View is Order; this includes the states in which
\* a snapshot taken from Command mode is on display and those reached by
\* leaving one.
CommandHasNoQuery ==
    display_mode = "Command" =>
        /\ input = <<>>
        /\ character_index = 0
        /\ view = order

\* C21 witness: an answer given from a snapshot taken in Command mode has
\* returned to Command mode with no query and the three students in View.
CommandHasNoQueryWitness ==
    /\ pc = "loop"
    /\ last = "answer"
    /\ display_mode = "Command"
    /\ input_mode(Self) = "Command"
    /\ input = <<>>
    /\ character_index = 0
    /\ Len(view) = 3

\* C22: in every reachable state in which a snapshot is present, it equals
\* the live Registry entry with its key: the same score, answered-today,
\* deferral and absence counts and tier (and the same name and key).
SnapshotFresh ==
    student_display # None =>
        LET snap == student_display[1]
        IN  /\ snap.email \in DOMAIN students
            /\ snap.participation_score
                   = students[snap.email].participation_score
            /\ snap.answered_today = students[snap.email].answered_today
            /\ snap.deferrals = students[snap.email].deferrals
            /\ snap.absent = students[snap.email].absent
            /\ snap.color = students[snap.email].color
            /\ snap = students[snap.email]

\* C22 witness: a snapshot of a student who has answered once in this
\* session, taken after the answer raised the score to 4 and the tier to 4.
SnapshotFreshWitness ==
    /\ pc = "loop"
    /\ last = "enter"
    /\ student_display # None
    /\ student_display[1].answered_today = 1
    /\ student_display[1].participation_score = 4
    /\ student_display[1].color = 4

====
